---- MODULE Spec2Model ----
(***************************************************************************)
(* A model of generate.py, the Android Sources Eclipse plugin site         *)
(* generator: the concurrent packaging pipeline of generate_plugins and    *)
(* the property-line tokenizer split_property_line.                        *)
(*                                                                         *)
(* Strings are sequences of one-character strings, so that str.strip,      *)
(* concatenation and the character loop are computed as the code computes  *)
(* them.                                                                   *)
(***************************************************************************)
EXTENDS Integers, Sequences, FiniteSets, TLC

\* ------------------------------------------------------------------------
\* Bounds of the model.

\* API levels are drawn from 1..MaxLevel.
MaxLevel == 3
\* The --threads argument is drawn from 1..MaxThreads.
MaxThreads == 2
\* A property line is a concatenation of at most MaxTokens tokens.
MaxTokens == 5

VARIABLES
  \* generate_plugins --------------------------------------------------
  sdks,             \* the catalog's keys in dict (insertion) order
  threads,          \* max_workers of the executor
  pc,               \* position of the thread running generate_plugins
  packing_threads,  \* the API levels whose task was submitted, in order
  future,           \* per API level: the state of its packaging task
  temporary,        \* per API level: the task's local NamedTemporaryFile (0: none)
  tmpdir,           \* the temporary directory: files in order of creation
  sdk_archives,     \* the shared result map: API level -> temporary file
  archive,          \* the final archive file: "absent", "open" or "closed"
  output,           \* the members written to the final archive, in order
  nassets,          \* static assets written so far
  sdk_index,        \* position of the copy loop in sorted(sdks)
  error,            \* the key of the KeyError that ended generate_plugins ({}: none)
  \* split_property_line ------------------------------------------------
  line,             \* the argument
  line_pos,         \* index in line of the character the loop takes next
  line_pc,          \* "loop" while the for loop runs, "returned" after
  key,
  current_line,
  in_key,
  escaped,
  hex_code,
  hex_string,
  data,             \* the value returned: ok is FALSE for None
  \* parse_property_file -----------------------------------------------
  source_lines,     \* handle.readlines()
  file_pos,         \* the number of lines the loop has taken
  file_pc,          \* "loop", "returned" or "raised"
  is_continuing,
  line_buffer,
  values,           \* the dict: a function from keys to values
  split_calls,      \* the arguments of the calls of split_property_line, in order
  \* collect_android_sources -------------------------------------------
  sources_exists,   \* os.path.exists(sources)
  listing,          \* os.listdir(sources): per directory, what its property file gives
  dir_index,        \* the number of directories the loop has taken
  source_directories, \* the dict: a function from API levels to directories
  collect_pc,       \* "start", "loop", "returned" or "raised"
  collect_error,    \* the exception that ended the call ("": none)
  \* package_sdk_source ------------------------------------------------
  tree,             \* the regular files under directory, as relative paths
  walked,           \* the files os.walk has yielded so far
  members,          \* the names written to the archive, in order
  package_pc,        \* "walk" or "closed"
  \* preprocess --------------------------------------------------------
  variables,        \* the variable map, a function from names to values
  template,         \* handle.readlines()
  template_pos,     \* the number of lines the for loop has taken
  template_line,    \* the local line
  rendered,         \* the local output
  spins,            \* iterations of the while loop that left line as it was
  preprocess_pc     \* "for", "while", "returned" or "raised"

plugin_vars == <<sdks, threads, pc, packing_threads, future, temporary, tmpdir,
                 sdk_archives, archive, output, nassets, sdk_index, error>>

line_vars == <<line, line_pos, line_pc, key, current_line, in_key, escaped,
               hex_code, hex_string, data>>

file_vars == <<source_lines, file_pos, file_pc, is_continuing, line_buffer,
               values, split_calls>>

collect_vars == <<sources_exists, listing, dir_index, source_directories,
                  collect_pc, collect_error>>

package_vars == <<tree, walked, members, package_pc>>

preprocess_vars == <<variables, template, template_pos, template_line, rendered, spins, preprocess_pc>>

vars == <<plugin_vars, line_vars, file_vars, collect_vars, package_vars, preprocess_vars>>

\* What a step of one function leaves alone: the state of the others.
not_plugin_vars == <<line_vars, file_vars, collect_vars, package_vars, preprocess_vars>>
not_line_vars == <<plugin_vars, file_vars, collect_vars, package_vars, preprocess_vars>>
not_file_vars == <<plugin_vars, line_vars, collect_vars, package_vars, preprocess_vars>>
not_collect_vars == <<plugin_vars, line_vars, file_vars, package_vars, preprocess_vars>>
not_package_vars == <<plugin_vars, line_vars, file_vars, collect_vars, preprocess_vars>>
not_preprocess_vars == <<plugin_vars, line_vars, file_vars, collect_vars, package_vars>>

Levels == 1..MaxLevel

\* ------------------------------------------------------------------------
\* Helpers.

Range(s) == {s[i] : i \in DOMAIN s}

IsInjective(s) == \A i, j \in DOMAIN s : s[i] = s[j] => i = j

Min(S) == CHOOSE m \in S : \A x \in S : m <= x

RECURSIVE SortSet(_)
SortSet(S) == IF S = {} THEN <<>>
              ELSE <<Min(S)>> \o SortSet(S \ {Min(S)})

\* list(sdks): the keys in dict order. The order a loop without sorted() sees.
Unsorted(s) == s

\* sorted(sdks): the keys of the catalog in ascending numeric order.
Sorted(s) == SortSet(Range(s))

\* A catalog as collect_android_sources returns it and main accepts it: a
\* non-empty dict with distinct integer keys, in os.listdir order.
Catalogs == {s \in UNION {[1..n -> Levels] : n \in 1..MaxLevel} : IsInjective(s)}

\* The static members written to the final archive, in program order.
StaticAssets == <<"about.html", "about.ini", "about.mappings", "android_32x32.png",
                  "about.properties", "META-INF/MANIFEST.MF",
                  "icons/android_32x32.png">>

AssetMember(name) == [kind |-> "asset", name |-> name, level |-> 0]

\* os.path.join(str(sdk), 'sources.zip')
SdkMember(sdk) == [kind |-> "sdk", name |-> "sources.zip", level |-> sdk]

\* A task occupies a worker from the moment a worker dequeues it until it
\* returns or raises.
Running == {l \in Levels : future[l] \in {"running", "created", "packed"}}

\* concurrent.futures.wait(..., return_when=FIRST_COMPLETED): one done future
\* is enough.
FirstCompleted == packing_threads = <<>> \/
                  \E i \in DOMAIN packing_threads :
                    future[packing_threads[i]] \in {"done", "failed"}

\* Every future of packing_threads is done: what Executor.__exit__
\* (shutdown(wait=True)) and concurrent.futures.wait block for.
AllFinished == \A i \in DOMAIN packing_threads :
                 future[packing_threads[i]] \in {"done", "failed"}

\* No call of split_property_line is in progress.
NoData == [ok |-> FALSE, key |-> <<>>, value |-> <<>>]

LineIdle ==
  /\ line = <<>>
  /\ line_pos = 0
  /\ line_pc = "idle"
  /\ key = <<>>
  /\ current_line = <<>>
  /\ in_key = TRUE
  /\ escaped = FALSE
  /\ hex_code = FALSE
  /\ hex_string = <<>>
  /\ data = NoData

\* generate_plugins is not running.
PluginsIdle ==
  /\ sdks = <<>>
  /\ threads = 1
  /\ pc = "idle"
  /\ packing_threads = <<>>
  /\ future = [l \in Levels |-> "none"]
  /\ temporary = [l \in Levels |-> 0]
  /\ tmpdir = <<>>
  /\ sdk_archives = <<>>
  /\ archive = "absent"
  /\ output = <<>>
  /\ nassets = 0
  /\ sdk_index = 0
  /\ error = {}

\* parse_property_file is not running.
FileIdle ==
  /\ source_lines = <<>>
  /\ file_pos = 0
  /\ file_pc = "idle"
  /\ is_continuing = FALSE
  /\ line_buffer = <<>>
  /\ values = <<>>
  /\ split_calls = <<>>

\* collect_android_sources is not running.
CollectIdle ==
  /\ sources_exists = FALSE
  /\ listing = <<>>
  /\ dir_index = 0
  /\ source_directories = <<>>
  /\ collect_pc = "idle"
  /\ collect_error = ""

\* package_sdk_source is not running.
PackageIdle ==
  /\ tree = {}
  /\ walked = {}
  /\ members = <<>>
  /\ package_pc = "idle"

\* preprocess is not running.
PreprocessIdle ==
  /\ variables = <<>>
  /\ template = <<>>
  /\ template_pos = 0
  /\ template_line = <<>>
  /\ rendered = <<>>
  /\ spins = 0
  /\ preprocess_pc = "idle"

\* Every function but g is not running.
OthersIdle(g) ==
  /\ IF g = "plugins" THEN TRUE ELSE PluginsIdle
  /\ IF g = "line" THEN TRUE ELSE LineIdle
  /\ IF g = "file" THEN TRUE ELSE FileIdle
  /\ IF g = "collect" THEN TRUE ELSE CollectIdle
  /\ IF g = "package" THEN TRUE ELSE PackageIdle
  /\ IF g = "preprocess" THEN TRUE ELSE PreprocessIdle

\* ------------------------------------------------------------------------
\* generate_plugins: the state at entry.

InitPlugins ==
  /\ sdks \in Catalogs
  /\ threads \in 1..MaxThreads
  /\ pc = "submit"
  /\ packing_threads = <<>>
  /\ future = [l \in Levels |-> "none"]
  /\ temporary = [l \in Levels |-> 0]
  /\ tmpdir = <<>>
  /\ sdk_archives = <<>>
  /\ archive = "absent"
  /\ output = <<>>
  /\ nassets = 0
  /\ sdk_index = 0
  /\ error = {}
  /\ OthersIdle("plugins")

\* executor.submit(asynchronous_packer, sdk, sdks[sdk]) for the next sdk.
Submit ==
  /\ pc = "submit"
  /\ Len(packing_threads) < Len(sdks)
  /\ LET sdk == sdks[Len(packing_threads) + 1] IN
       /\ packing_threads' = Append(packing_threads, sdk)
       /\ future' = [future EXCEPT ![sdk] = "queued"]
  /\ UNCHANGED not_plugin_vars
  /\ UNCHANGED <<sdks, threads, pc, temporary, tmpdir, sdk_archives, archive,
                 output, nassets, sdk_index, error>>

\* A worker of the pool takes the oldest queued work item.
TaskStart(l) ==
  /\ future[l] = "queued"
  /\ Cardinality(Running) < threads
  /\ \A i, j \in DOMAIN packing_threads :
       (packing_threads[j] = l /\ i < j) => future[packing_threads[i]] # "queued"
  /\ future' = [future EXCEPT ![l] = "running"]
  /\ UNCHANGED not_plugin_vars
  /\ UNCHANGED <<sdks, threads, pc, packing_threads, temporary, tmpdir,
                 sdk_archives, archive, output, nassets, sdk_index, error>>

\* tempfile.NamedTemporaryFile(delete=False): a new file with a fresh name.
TaskCreateTemporary(l) ==
  /\ future[l] = "running"
  /\ tmpdir' = Append(tmpdir, [owner |-> l, exists |-> TRUE])
  /\ temporary' = [temporary EXCEPT ![l] = Len(tmpdir) + 1]
  /\ future' = [future EXCEPT ![l] = "created"]
  /\ UNCHANGED not_plugin_vars
  /\ UNCHANGED <<sdks, threads, pc, packing_threads, sdk_archives, archive,
                 output, nassets, sdk_index, error>>

\* package_sdk_source(path, temporary) returns.
TaskPack(l) ==
  /\ future[l] = "created"
  /\ future' = [future EXCEPT ![l] = "packed"]
  /\ UNCHANGED not_plugin_vars
  /\ UNCHANGED <<sdks, threads, pc, packing_threads, temporary, tmpdir,
                 sdk_archives, archive, output, nassets, sdk_index, error>>

\* package_sdk_source raises: the with block closes the temporary file, which
\* stays on disk (delete=False); the exception is stored in the future.
TaskFail(l) ==
  /\ future[l] = "created"
  /\ future' = [future EXCEPT ![l] = "failed"]
  /\ UNCHANGED not_plugin_vars
  /\ UNCHANGED <<sdks, threads, pc, packing_threads, temporary, tmpdir,
                 sdk_archives, archive, output, nassets, sdk_index, error>>

\* sdk_archives[api_level] = temporary, and the task returns.
TaskPublish(l) ==
  /\ future[l] = "packed"
  /\ sdk_archives' = [x \in (DOMAIN sdk_archives) \cup {l} |->
                        IF x = l THEN temporary[l] ELSE sdk_archives[x]]
  /\ future' = [future EXCEPT ![l] = "done"]
  /\ UNCHANGED not_plugin_vars
  /\ UNCHANGED <<sdks, threads, pc, packing_threads, temporary, tmpdir,
                 archive, output, nassets, sdk_index, error>>

\* Leaving the executor's with block without joining the workers
\* (shutdown(wait=False)).
ExecutorExitNoWait ==
  /\ pc = "submit"
  /\ Len(packing_threads) = Len(sdks)
  /\ pc' = "open"
  /\ UNCHANGED not_plugin_vars
  /\ UNCHANGED <<sdks, threads, packing_threads, future, temporary, tmpdir,
                 sdk_archives, archive, output, nassets, sdk_index, error>>

\* Leaving the executor's with block: shutdown(wait=True) joins the workers.
ExecutorExit ==
  /\ pc = "submit"
  /\ Len(packing_threads) = Len(sdks)
  /\ AllFinished
  /\ pc' = "open"
  /\ UNCHANGED not_plugin_vars
  /\ UNCHANGED <<sdks, threads, packing_threads, future, temporary, tmpdir,
                 sdk_archives, archive, output, nassets, sdk_index, error>>

\* zipfile.ZipFile(output_file_name, 'w', ...): the file is created.
OpenOutput ==
  /\ pc = "open"
  /\ archive' = "open"
  /\ output' = <<>>
  /\ pc' = "assets"
  /\ UNCHANGED not_plugin_vars
  /\ UNCHANGED <<sdks, threads, packing_threads, future, temporary, tmpdir,
                 sdk_archives, nassets, sdk_index, error>>

\* output.write / output.writestr of the next static asset.
WriteAsset ==
  /\ pc = "assets"
  /\ nassets < Len(StaticAssets)
  /\ output' = Append(output, AssetMember(StaticAssets[nassets + 1]))
  /\ nassets' = nassets + 1
  /\ UNCHANGED not_plugin_vars
  /\ UNCHANGED <<sdks, threads, pc, packing_threads, future, temporary, tmpdir,
                 sdk_archives, archive, sdk_index, error>>

\* concurrent.futures.wait(packing_threads)
WaitPackingThreads ==
  /\ pc = "assets"
  /\ nassets = Len(StaticAssets)
  /\ AllFinished
  /\ pc' = "copy"
  /\ sdk_index' = 1
  /\ UNCHANGED not_plugin_vars
  /\ UNCHANGED <<sdks, threads, packing_threads, future, temporary, tmpdir,
                 sdk_archives, archive, output, nassets, error>>

\* output.write(sdk_archives[sdk].name, sources_zip, ZIP_STORED)
CopySdk ==
  /\ pc = "copy"
  /\ sdk_index <= Len(Sorted(sdks))
  /\ LET sdk == Sorted(sdks)[sdk_index] IN
       /\ sdk \in DOMAIN sdk_archives
       /\ output' = Append(output, SdkMember(sdk))
  /\ pc' = "unlink"
  /\ UNCHANGED not_plugin_vars
  /\ UNCHANGED <<sdks, threads, packing_threads, future, temporary, tmpdir,
                 sdk_archives, archive, nassets, sdk_index, error>>

\* sdk_archives[sdk] raises KeyError: the task of sdk published nothing. The
\* exception leaves the with block, which closes the archive (ZipFile.__exit__
\* writes the central directory), and generate_plugins ends with the KeyError.
CopyKeyError ==
  /\ pc = "copy"
  /\ sdk_index <= Len(Sorted(sdks))
  /\ LET sdk == Sorted(sdks)[sdk_index] IN
       /\ sdk \notin DOMAIN sdk_archives
       /\ error' = {sdk}
  /\ archive' = "closed"
  /\ pc' = "error"
  /\ UNCHANGED not_plugin_vars
  /\ UNCHANGED <<sdks, threads, packing_threads, future, temporary, tmpdir,
                 sdk_archives, output, nassets, sdk_index>>

\* The loop moves on without os.unlink: the temporary file stays.
UnlinkSkipped ==
  /\ pc = "unlink"
  /\ sdk_index' = sdk_index + 1
  /\ pc' = "copy"
  /\ UNCHANGED not_plugin_vars
  /\ UNCHANGED <<sdks, threads, packing_threads, future, temporary, tmpdir,
                 sdk_archives, archive, output, nassets, error>>

\* os.unlink(sdk_archives[sdk].name), and the loop moves on.
UnlinkSdk ==
  /\ pc = "unlink"
  /\ LET sdk == Sorted(sdks)[sdk_index] IN
       tmpdir' = [tmpdir EXCEPT ![sdk_archives[sdk]].exists = FALSE]
  /\ sdk_index' = sdk_index + 1
  /\ pc' = "copy"
  /\ UNCHANGED not_plugin_vars
  /\ UNCHANGED <<sdks, threads, packing_threads, future, temporary,
                 sdk_archives, archive, output, nassets, error>>

\* The loop is over: the with block closes the archive and the size is returned.
CloseOutput ==
  /\ pc = "copy"
  /\ sdk_index > Len(Sorted(sdks))
  /\ archive' = "closed"
  /\ pc' = "returned"
  /\ UNCHANGED not_plugin_vars
  /\ UNCHANGED <<sdks, threads, packing_threads, future, temporary, tmpdir,
                 sdk_archives, output, nassets, sdk_index, error>>

NextPlugins ==
  \/ Submit
  \/ \E l \in Levels : TaskStart(l)
  \/ \E l \in Levels : TaskCreateTemporary(l)
  \/ \E l \in Levels : TaskPack(l)
  \/ \E l \in Levels : TaskFail(l)
  \/ \E l \in Levels : TaskPublish(l)
  \/ ExecutorExit
  \/ OpenOutput
  \/ WriteAsset
  \/ WaitPackingThreads
  \/ CopySdk
  \/ CopyKeyError
  \/ UnlinkSdk
  \/ CloseOutput

SpecPlugins == InitPlugins /\ [][NextPlugins]_vars

\* ------------------------------------------------------------------------
\* Properties of generate_plugins.

\* The API levels of the per-level members of the final archive, in the order
\* they were written.
RECURSIVE SdkLevels(_)
SdkLevels(out) ==
  IF out = <<>> THEN <<>>
  ELSE IF out[1].kind = "sdk" THEN <<out[1].level>> \o SdkLevels(Tail(out))
       ELSE SdkLevels(Tail(out))

Ended == pc \in {"returned", "error"}

Failed == {l \in Levels : future[l] = "failed"}

\* C1: at every moment the per-level members written so far are the first
\* levels of the catalog in ascending numeric order, and when generate_plugins
\* has returned they are all the levels of the catalog in ascending order: a
\* function of the set of levels alone, whatever the dict order, the worker
\* count and the order in which the tasks started and finished.
MemberOrderSorted ==
  LET m == SdkLevels(output)
      asc == SortSet(Range(sdks))
  IN /\ Len(m) <= Len(asc)
     /\ m = SubSeq(asc, 1, Len(m))
     /\ pc = "returned" => m = asc

\* A run with two workers over a catalog whose dict order is not ascending has
\* returned with the members 1, 2, 3.
MemberOrderSortedWitness ==
  /\ pc = "returned"
  /\ sdks = <<3, 1, 2>>
  /\ threads = 2
  /\ tmpdir[1].owner = 3
  /\ SdkLevels(output) = <<1, 2, 3>>

\* C2: completion barrier. Once the copy loop has been entered (a result is
\* about to be read from sdk_archives, or a per-level member is in the final
\* archive) every task of the catalog has been submitted and has finished,
\* with success or with failure.
CompletionBarrier ==
  (pc \in {"copy", "unlink", "error", "returned"} \/ SdkLevels(output) # <<>>)
    => /\ packing_threads = sdks
       /\ \A l \in Range(sdks) : future[l] \in {"done", "failed"}

\* The first per-level copy has just been made, in a run of three tasks on two
\* workers of which one failed.
CompletionBarrierWitness ==
  /\ pc = "unlink"
  /\ sdk_index = 1
  /\ Len(sdks) = 3
  /\ threads = 2
  /\ future[3] = "failed"
  /\ Len(SdkLevels(output)) = 1

\* C3: if at least one packaging task failed, generate_plugins ends in an
\* error, no per-level member was written to the final archive and no closed
\* final archive is left behind.
FailureWritesNoArchive ==
  (Ended /\ Failed # {})
    => /\ pc = "error"
       /\ SdkLevels(output) = <<>>
       /\ archive # "closed"

\* C4: if exactly one of N >= 2 packaging tasks failed, then when
\* generate_plugins has ended the temporary archives of the other N-1 tasks
\* have all been deleted.
FailureCleansTemporaries ==
  (Ended /\ Len(sdks) >= 2 /\ Cardinality(Failed) = 1)
    => \A i \in DOMAIN tmpdir :
         tmpdir[i].owner \notin Failed => ~tmpdir[i].exists

\* C5: when k >= 1 packaging tasks failed, every submitted task has run to
\* completion and generate_plugins has ended with one error that identifies
\* all k failing API levels.
ErrorsAggregated ==
  (Ended /\ Failed # {})
    => /\ \A l \in Range(sdks) : future[l] \in {"done", "failed"}
       /\ pc = "error"
       /\ error = Failed

\* A packaging task is submitted and has not finished.
Unfinished == {l \in Levels : future[l] \in {"queued", "running", "created", "packed"}}

\* C19: while the final archive exists every task of the catalog has been
\* submitted and has finished, so it is opened only after all of them; and
\* every step that opens, writes or closes the final archive is taken with no
\* packaging task unfinished and is not a step of a packaging task (it leaves
\* the futures, the temporaries and the shared result map as they were).
FinalArchiveSingleWriter ==
  /\ [](archive # "absent" =>
          /\ packing_threads = sdks
          /\ Unfinished = {})
  /\ [][(archive' # archive \/ output' # output) =>
          /\ Unfinished = {}
          /\ packing_threads = sdks
          /\ future' = future
          /\ temporary' = temporary
          /\ sdk_archives' = sdk_archives]_vars

\* All static assets are in the open final archive, in a run of three tasks
\* on two workers that all published their result.
FinalArchiveSingleWriterWitness ==
  /\ archive = "open"
  /\ pc = "assets"
  /\ nassets = Len(StaticAssets)
  /\ Len(output) = Len(StaticAssets)
  /\ Len(sdks) = 3
  /\ threads = 2
  /\ DOMAIN sdk_archives = Range(sdks)

\* The state predicates of the temporary-archive lifecycle.
LifecycleInv ==
  LET m == SdkLevels(output) IN
  \* at most one temporary archive per API level, created by its own task
  /\ \A l \in Levels : Cardinality({i \in DOMAIN tmpdir : tmpdir[i].owner = l}) <= 1
  /\ \A l \in Levels : temporary[l] # 0 => tmpdir[temporary[l]].owner = l
  \* a published result is the archive of the task that published it
  /\ \A l \in DOMAIN sdk_archives :
       /\ future[l] = "done"
       /\ sdk_archives[l] = temporary[l]
  \* copied at most once, and only after publication
  /\ IsInjective(m)
  /\ Range(m) \subseteq DOMAIN sdk_archives
  \* deleted only after the copy
  /\ \A i \in DOMAIN tmpdir : ~tmpdir[i].exists => tmpdir[i].owner \in Range(m)
  \* deleted right after the copy: only the member just copied still has its file
  /\ \A j \in DOMAIN m :
       tmpdir[sdk_archives[m[j]]].exists => (pc = "unlink" /\ j = Len(m))
  \* returned: one archive per level, each published, copied once and deleted
  /\ pc = "returned" =>
       /\ Failed = {}
       /\ Len(tmpdir) = Len(sdks)
       /\ DOMAIN sdk_archives = Range(sdks)
       /\ Range(m) = Range(sdks)
       /\ \A i \in DOMAIN tmpdir : ~tmpdir[i].exists

\* C6: lifecycle of the temporary archives. Each API level gets one temporary
\* archive, created by its task and published once (a published entry is never
\* replaced or removed); the copy loop copies it once, only after it was
\* published, and deletes it before it copies the next one; and when
\* generate_plugins has returned (every task succeeded) no temporary archive
\* exists.
TemporaryLifecycle ==
  /\ []LifecycleInv
  /\ [][\A l \in DOMAIN sdk_archives :
          l \in DOMAIN sdk_archives' /\ sdk_archives'[l] = sdk_archives[l]]_vars

\* Three tasks on two workers all succeeded, their archives were not created
\* in catalog order, and generate_plugins returned with every one of them
\* copied and deleted.
TemporaryLifecycleWitness ==
  /\ pc = "returned"
  /\ Len(sdks) = 3
  /\ threads = 2
  /\ tmpdir[1].owner # sdks[1]
  /\ Len(SdkLevels(output)) = 3
  /\ \A i \in DOMAIN tmpdir : ~tmpdir[i].exists

\* ------------------------------------------------------------------------
\* split_property_line.

Separators == {":", "="}

\* '0123456789ABCDEF'
HexChars == <<"0", "1", "2", "3", "4", "5", "6", "7", "8", "9",
              "A", "B", "C", "D", "E", "F">>

DecChars == <<"0", "1", "2", "3", "4", "5", "6", "7", "8", "9">>

\* The number of hex digits of a unicode escape.
HexLength == 4

\* The characters str.strip() removes.
Whitespace == {" ", "\t", "\n", "\r", "\f"}

IsHex(c) == \E i \in DOMAIN HexChars : HexChars[i] = c

HexDigit(c) == (CHOOSE i \in DOMAIN HexChars : HexChars[i] = c) - 1

\* int(h, 16)
RECURSIVE HexInt(_)
HexInt(h) == IF Len(h) = 1 THEN HexDigit(h[1])
             ELSE 16 * HexInt(SubSeq(h, 1, Len(h) - 1)) + HexDigit(h[Len(h)])

\* str(n) for n >= 0
RECURSIVE DecStr(_)
DecStr(n) == IF n < 10 THEN <<DecChars[n + 1]>>
             ELSE Append(DecStr(n \div 10), DecChars[(n % 10) + 1])

\* str.strip()
RECURSIVE LStrip(_)
LStrip(t) == IF t # <<>> /\ t[1] \in Whitespace THEN LStrip(Tail(t)) ELSE t

RECURSIVE RStrip(_)
RStrip(t) == IF t # <<>> /\ t[Len(t)] \in Whitespace
             THEN RStrip(SubSeq(t, 1, Len(t) - 1)) ELSE t

Strip(t) == RStrip(LStrip(t))

\* The local variables of split_property_line; none: it has returned None.
Locals == [key |-> key, current_line |-> current_line, in_key |-> in_key,
           escaped |-> escaped, hex_code |-> hex_code,
           hex_string |-> hex_string, none |-> FALSE]

\* Lines 88-101 where a backslash after a backslash is taken as one literal
\* backslash.
PlainEscapedBackslash(s, c) ==
  IF c = "\\" THEN
    IF s.escaped
      THEN [s EXCEPT !.current_line = Append(s.current_line, c),
                     !.escaped = FALSE]
      ELSE [s EXCEPT !.escaped = TRUE]
  ELSE IF c \in Separators THEN
    IF ~s.in_key THEN [s EXCEPT !.none = TRUE]
    ELSE [s EXCEPT !.key = Strip(s.current_line), !.current_line = <<>>]
  ELSE IF s.escaped
    THEN [s EXCEPT !.current_line = s.current_line \o <<"\\", c>>,
                   !.escaped = FALSE]
    ELSE [s EXCEPT !.current_line = Append(s.current_line, c)]

\* Lines 88-101: the character is handled outside of an escape.
Plain(s, c) ==
  IF c = "\\" THEN [s EXCEPT !.escaped = TRUE]
  ELSE IF c \in Separators THEN
    IF ~s.in_key THEN [s EXCEPT !.none = TRUE]
    ELSE [s EXCEPT !.key = Strip(s.current_line), !.current_line = <<>>]
  ELSE IF s.escaped
    THEN [s EXCEPT !.current_line = s.current_line \o <<"\\", c>>,
                   !.escaped = FALSE]
    ELSE [s EXCEPT !.current_line = Append(s.current_line, c)]

\* Lines 77-86 where only ':' is taken as an escaped separator.
EscapedColonOnly(s, c) ==
  IF c = ":"
    THEN [s EXCEPT !.escaped = FALSE, !.current_line = Append(s.current_line, c)]
  ELSE IF c = "u"
    THEN [s EXCEPT !.hex_code = TRUE, !.hex_string = <<>>, !.escaped = FALSE]
  ELSE Plain(s, c)

\* Lines 77-86: the character after a backslash.
Escaped(s, c) ==
  IF c \in Separators
    THEN [s EXCEPT !.escaped = FALSE, !.current_line = Append(s.current_line, c)]
  ELSE IF c = "u"
    THEN [s EXCEPT !.hex_code = TRUE, !.hex_string = <<>>, !.escaped = FALSE]
  ELSE Plain(s, c)

\* Lines 67-76: a character inside a unicode escape. With four digits read,
\* the decimal string is appended and this character is handled by lines 88-101.
Hex(s, c) ==
  IF Len(s.hex_string) = HexLength
    THEN Plain([s EXCEPT !.current_line =
                           s.current_line \o DecStr(HexInt(s.hex_string)),
                         !.hex_code = FALSE, !.hex_string = <<>>], c)
  ELSE IF ~IsHex(c) THEN [s EXCEPT !.none = TRUE]
  ELSE [s EXCEPT !.hex_string = Append(s.hex_string, c)]

\* One iteration of the for loop.
Body(s, c) == IF s.hex_code THEN Hex(s, c)
              ELSE IF s.escaped THEN Escaped(s, c)
              ELSE Plain(s, c)

\* Lines 60-65: the locals at entry.
InitialLocals == [key |-> <<>>, current_line |-> <<>>, in_key |-> TRUE,
                  escaped |-> FALSE, hex_code |-> FALSE, hex_string |-> <<>>,
                  none |-> FALSE]

\* The for loop from character i of l on, until it ends or returns None.
RECURSIVE Loop(_, _, _)
Loop(s, l, i) == IF i > Len(l) THEN s
                 ELSE LET t == Body(s, l[i])
                      IN IF t.none THEN t ELSE Loop(t, l, i + 1)

\* split_property_line(l) as a function of its argument.
SplitPropertyLine(l) ==
  LET s == Loop(InitialLocals, l, 1)
  IN IF s.none \/ s.key = <<>> THEN NoData
     ELSE [ok |-> TRUE, key |-> s.key, value |-> Strip(s.current_line)]

\* The tokens of which the lines of the model are made: single characters, the
\* start of a unicode escape and four hex digits.
Tokens == {<<"k">>, <<"=">>, <<":">>, <<" ">>, <<"0">>, <<"\\">>, <<"\\", "u">>,
           <<"0", "0", "4", "1">>}

RECURSIVE TokenLines(_)
TokenLines(n) == IF n = 0 THEN {<<>>}
                 ELSE LET shorter == TokenLines(n - 1)
                      IN shorter \cup {l \o t : l \in shorter, t \in Tokens}

\* Lines 60-65: split_property_line is entered with a line.
InitLine ==
  /\ OthersIdle("line")
  /\ line \in TokenLines(MaxTokens)
  /\ line_pos = 1
  /\ line_pc = "loop"
  /\ key = <<>>
  /\ current_line = <<>>
  /\ in_key = TRUE
  /\ escaped = FALSE
  /\ hex_code = FALSE
  /\ hex_string = <<>>
  /\ data = NoData

\* An iteration of the loop that goes on to the next character.
Iterate ==
  /\ line_pc = "loop"
  /\ line_pos <= Len(line)
  /\ LET t == Body(Locals, line[line_pos]) IN
       /\ ~t.none
       /\ key' = t.key
       /\ current_line' = t.current_line
       /\ in_key' = t.in_key
       /\ escaped' = t.escaped
       /\ hex_code' = t.hex_code
       /\ hex_string' = t.hex_string
  /\ line_pos' = line_pos + 1
  /\ UNCHANGED <<line, line_pc, data>>
  /\ UNCHANGED not_line_vars

\* An iteration of the loop that returns None (lines 74 and 93).
IterateReturnNone ==
  /\ line_pc = "loop"
  /\ line_pos <= Len(line)
  /\ Body(Locals, line[line_pos]).none
  /\ line_pc' = "returned"
  /\ data' = NoData
  /\ UNCHANGED <<line, line_pos, key, current_line, in_key, escaped, hex_code,
                 hex_string>>
  /\ UNCHANGED not_line_vars

\* Lines 103-104: the loop is over and there is no key.
ReturnNoKey ==
  /\ line_pc = "loop"
  /\ line_pos > Len(line)
  /\ key = <<>>
  /\ line_pc' = "returned"
  /\ data' = NoData
  /\ UNCHANGED <<line, line_pos, key, current_line, in_key, escaped, hex_code,
                 hex_string>>
  /\ UNCHANGED not_line_vars

\* Line 106: return (key, current_line.strip())
ReturnPair ==
  /\ line_pc = "loop"
  /\ line_pos > Len(line)
  /\ key # <<>>
  /\ line_pc' = "returned"
  /\ data' = [ok |-> TRUE, key |-> key, value |-> Strip(current_line)]
  /\ UNCHANGED <<line, line_pos, key, current_line, in_key, escaped, hex_code,
                 hex_string>>
  /\ UNCHANGED not_line_vars

NextLine ==
  \/ Iterate
  \/ IterateReturnNone
  \/ ReturnNoKey
  \/ ReturnPair

SpecLine == InitLine /\ [][NextLine]_vars

\* ------------------------------------------------------------------------
\* Properties of split_property_line.

Returned == line_pc = "returned"

Pair(k, v) == [ok |-> TRUE, key |-> k, value |-> v]

Backslashes(l) == {i \in DOMAIN l : l[i] = "\\"}

\* A well-formed unicode escape starts at position p of l.
EscapeAt(l, p) ==
  /\ p + 1 + HexLength <= Len(l)
  /\ l[p] = "\\"
  /\ l[p + 1] = "u"
  /\ \A i \in (p + 2)..(p + 1 + HexLength) : IsHex(l[i])

\* The decimal string of the escape at position p of l.
EscapeDecimal(l, p) == DecStr(HexInt(SubSeq(l, p + 2, p + 1 + HexLength)))

\* l from position a to position b, with the escape at p (if inside) replaced
\* by its decimal string.
Replaced(l, a, b, p) ==
  IF a <= p /\ p + 1 + HexLength <= b
    THEN SubSeq(l, a, p - 1) \o EscapeDecimal(l, p)
           \o SubSeq(l, p + 2 + HexLength, b)
    ELSE SubSeq(l, a, b)

\* A separator that does not follow a backslash.
UnescapedSeparators(l) ==
  {i \in DOMAIN l : l[i] \in Separators /\ (i = 1 \/ l[i - 1] # "\\")}

\* C7: a unicode escape is replaced by the decimal string of its four hex
\* digits wherever it stands, the end of the line included. Stated for the
\* lines whose only backslash starts a well-formed escape and that hold one
\* separator after a non-blank key: the pair returned is the line with the
\* escape replaced by its decimal string, split at the separator and trimmed
\* (k=<backslash>u0041 gives ("k", "65")).
UnicodeEscapeDecoded ==
  Returned =>
    \A p, q \in DOMAIN line :
      LET k == Strip(Replaced(line, 1, q - 1, p))
          v == Strip(Replaced(line, q + 1, Len(line), p))
      IN (/\ Backslashes(line) = {p}
          /\ EscapeAt(line, p)
          /\ {i \in DOMAIN line : line[i] \in Separators} = {q}
          /\ k # <<>>)
         => data = Pair(k, v)

\* C8: a line with a second unescaped separator after the first unescaped
\* separator has ended a (non-blank) key fails (k=v=w returns None).
SecondSeparatorFails ==
  Returned =>
    \A i, j \in UnescapedSeparators(line) :
      (/\ i < j
       /\ \A h \in UnescapedSeparators(line) : i <= h
       /\ Strip(SubSeq(line, 1, i - 1)) # <<>>)
      => ~data.ok

\* C9: a line with a malformed unicode escape fails: after backslash-u, a
\* character that is no hex digit comes before four hex digits were read, or
\* the line ends before four hex digits were read.
MalformedEscapeFails ==
  Returned =>
    \A p \in DOMAIN line :
      (/\ p < Len(line)
       /\ line[p] = "\\"
       /\ line[p + 1] = "u"
       /\ p = 1 \/ line[p - 1] # "\\"
       /\ ~EscapeAt(line, p))
      => ~data.ok

\* C10: when the loop takes a ':' or '=' that directly follows a backslash,
\* the iteration does not return None, leaves key and in_key as they are and
\* appends that one character (without the backslash) to the part being
\* scanned.
EscapedSeparatorLiteral ==
  [][(/\ line_pc = "loop"
      /\ 1 < line_pos
      /\ line_pos <= Len(line)
      /\ line[line_pos - 1] = "\\"
      /\ line[line_pos] \in Separators)
     => /\ line_pc' = "loop"
        /\ line_pos' = line_pos + 1
        /\ key' = key
        /\ in_key' = in_key
        /\ current_line' = Append(current_line, line[line_pos])]_vars

\* <backslash>:=<backslash>= has returned (":", "="): an escaped ':' was
\* taken into the key, the '=' after it ended the key, and an escaped '=' went
\* into the value.
EscapedSeparatorLiteralWitness ==
  /\ Returned
  /\ line = <<"\\", ":", "=", "\\", "=">>
  /\ data = Pair(<<":">>, <<"=">>)

\* A backslash directly followed by c stands somewhere in l.
HasBackslashThen(l, c) ==
  \E i \in DOMAIN l : i < Len(l) /\ l[i] = "\\" /\ l[i + 1] = c

\* key + '=' + value
Reserialized(d) == d.key \o <<"=">> \o d.value

\* C11 as stated: every line without a unicode escape that parses to
\* (key, value) parses to the same pair again when re-serialized as
\* key=value, lines with an escaped separator included.
RoundTrip ==
  (Returned /\ data.ok /\ ~HasBackslashThen(line, "u"))
    => SplitPropertyLine(Reserialized(data)) = data

\* t ends in a backslash.
EndsInBackslash(t) == t # <<>> /\ t[Len(t)] = "\\"

\* C11, amended: every line without a unicode escape and without an escaped
\* separator that parses to a (key, value) of which neither ends in a
\* backslash (left at the end by the trimming of the blank it escaped) parses
\* to the same pair again when re-serialized as key=value.
RoundTripNoEscapedSeparator ==
  (/\ Returned
   /\ data.ok
   /\ ~HasBackslashThen(line, "u")
   /\ ~HasBackslashThen(line, ":")
   /\ ~HasBackslashThen(line, "=")
   /\ ~EndsInBackslash(data.key)
   /\ ~EndsInBackslash(data.value))
    => SplitPropertyLine(Reserialized(data)) = data

\* " k=<backslash>k" has returned ("k", "<backslash>k"), which differs from
\* the line by the trimmed blank, and "k=<backslash>k" parses to it again.
RoundTripWitness ==
  /\ Returned
  /\ line = <<" ", "k", "=", "\\", "k">>
  /\ data = Pair(<<"k">>, <<"\\", "k">>)
  /\ SplitPropertyLine(Reserialized(data)) = data

\* ------------------------------------------------------------------------
\* parse_property_file.

\* A file holds at most MaxFileLines lines.
MaxFileLines == 3

\* The physical lines of which the files of the model are made: blank lines,
\* comments (one ending in a backslash, one indented), a line to be continued,
\* a line without separator, plain properties with and without line end, and
\* a property ending in an escaped backslash.
PhysicalLines ==
  { <<"\n">>,
    <<" ", "\n">>,
    <<"#", "k", "\n">>,
    <<" ", "!", "k", "\\", "\n">>,
    <<"k", "=", "a", "\\", "\n">>,
    <<"b", "\n">>,
    <<" ", "k", "=", "v", " ", "\n">>,
    <<"j", "=", "w">>,
    <<"j", "=", "w", "\\", "\\", "\n">> }

\* What readlines() can return: only the last line may lack its line end.
Files ==
  {f \in UNION {[1..n -> PhysicalLines] : n \in 0..MaxFileLines} :
     \A i \in DOMAIN f : i < Len(f) => f[i][Len(f[i])] = "\n"}

\* line = source_line.strip(), for the line the loop takes next.
SourceLine == Strip(source_lines[file_pos + 1])

StartsWith(t, c) == t # <<>> /\ t[1] = c

EndsWith(t, c) == t # <<>> /\ t[Len(t)] = c

\* Lines 118-123: the line is skipped.
IsBlank(t) == t = <<>>

IsComment(t) == ~is_continuing /\ (StartsWith(t, "#") \/ StartsWith(t, "!"))

\* Line 131: line = line_buffer + ' ' + line
LogicalLine(t) == line_buffer \o <<" ">> \o t

\* values[key] = value
Store(d, k, v) == [x \in (DOMAIN d) \cup {k} |-> IF x = k THEN v ELSE d[x]]

\* Lines 113-115: the file is open and the loop is about to start.
InitFile ==
  /\ OthersIdle("file")
  /\ source_lines \in Files
  /\ file_pos = 0
  /\ file_pc = "loop"
  /\ is_continuing = FALSE
  /\ line_buffer = <<>>
  /\ values = <<>>
  /\ split_calls = <<>>

\* Lines 118-119: a blank line.
SkipBlank ==
  /\ file_pc = "loop"
  /\ file_pos < Len(source_lines)
  /\ IsBlank(SourceLine)
  /\ file_pos' = file_pos + 1
  /\ UNCHANGED <<source_lines, file_pc, is_continuing, line_buffer, values,
                 split_calls>>
  /\ UNCHANGED not_file_vars

\* Lines 121-123: a comment line, outside of a continuation.
SkipComment ==
  /\ file_pc = "loop"
  /\ file_pos < Len(source_lines)
  /\ ~IsBlank(SourceLine)
  /\ IsComment(SourceLine)
  /\ file_pos' = file_pos + 1
  /\ UNCHANGED <<source_lines, file_pc, is_continuing, line_buffer, values,
                 split_calls>>
  /\ UNCHANGED not_file_vars

\* Lines 125-128: the line ends with a backslash and is buffered.
BufferLine ==
  /\ file_pc = "loop"
  /\ file_pos < Len(source_lines)
  /\ ~IsBlank(SourceLine)
  /\ ~IsComment(SourceLine)
  /\ EndsWith(SourceLine, "\\")
  /\ is_continuing' = TRUE
  /\ line_buffer' = line_buffer \o <<" ">> \o SourceLine
  /\ file_pos' = file_pos + 1
  /\ UNCHANGED <<source_lines, file_pc, values, split_calls>>
  /\ UNCHANGED not_file_vars

\* Lines 130-139 where line_buffer is not reset.
ParseLineKeepBuffer ==
  /\ file_pc = "loop"
  /\ file_pos < Len(source_lines)
  /\ ~IsBlank(SourceLine)
  /\ ~IsComment(SourceLine)
  /\ ~EndsWith(SourceLine, "\\")
  /\ LET parsed == SplitPropertyLine(LogicalLine(SourceLine)) IN
       /\ parsed.ok
       /\ values' = Store(values, parsed.key, parsed.value)
  /\ is_continuing' = FALSE
  /\ split_calls' = Append(split_calls, LogicalLine(SourceLine))
  /\ file_pos' = file_pos + 1
  /\ UNCHANGED <<source_lines, file_pc, line_buffer>>
  /\ UNCHANGED not_file_vars

\* Lines 130-139: the logical line is parsed and its pair is stored.
ParseLine ==
  /\ file_pc = "loop"
  /\ file_pos < Len(source_lines)
  /\ ~IsBlank(SourceLine)
  /\ ~IsComment(SourceLine)
  /\ ~EndsWith(SourceLine, "\\")
  /\ LET parsed == SplitPropertyLine(LogicalLine(SourceLine)) IN
       /\ parsed.ok
       /\ values' = Store(values, parsed.key, parsed.value)
  /\ is_continuing' = FALSE
  /\ line_buffer' = <<>>
  /\ split_calls' = Append(split_calls, LogicalLine(SourceLine))
  /\ file_pos' = file_pos + 1
  /\ UNCHANGED <<source_lines, file_pc>>
  /\ UNCHANGED not_file_vars

\* Lines 130-136: split_property_line returns None and the exception is raised.
ParseRaise ==
  /\ file_pc = "loop"
  /\ file_pos < Len(source_lines)
  /\ ~IsBlank(SourceLine)
  /\ ~IsComment(SourceLine)
  /\ ~EndsWith(SourceLine, "\\")
  /\ ~SplitPropertyLine(LogicalLine(SourceLine)).ok
  /\ is_continuing' = FALSE
  /\ line_buffer' = <<>>
  /\ split_calls' = Append(split_calls, LogicalLine(SourceLine))
  /\ file_pos' = file_pos + 1
  /\ file_pc' = "raised"
  /\ UNCHANGED <<source_lines, values>>
  /\ UNCHANGED not_file_vars

\* Line 141: the lines are exhausted and values is returned.
FileReturn ==
  /\ file_pc = "loop"
  /\ file_pos = Len(source_lines)
  /\ file_pc' = "returned"
  /\ UNCHANGED <<source_lines, file_pos, is_continuing, line_buffer, values,
                 split_calls>>
  /\ UNCHANGED not_file_vars

NextFile ==
  \/ SkipBlank
  \/ SkipComment
  \/ BufferLine
  \/ ParseLine
  \/ ParseRaise
  \/ FileReturn

SpecFile == InitFile /\ [][NextFile]_vars

\* ------------------------------------------------------------------------
\* Properties of parse_property_file.

\* The number of backslashes at the end of t.
RECURSIVE TrailingBackslashes(_)
TrailingBackslashes(t) ==
  IF EndsWith(t, "\\") THEN 1 + TrailingBackslashes(SubSeq(t, 1, Len(t) - 1))
  ELSE 0

\* t ends with a backslash that no backslash before it escapes.
UnescapedTrailingBackslash(t) == TrailingBackslashes(t) % 2 = 1

LooksLikeComment(t) == StartsWith(t, "#") \/ StartsWith(t, "!")

\* The step takes a line and changes nothing else.
LineSkipped ==
  /\ file_pos' = file_pos + 1
  /\ UNCHANGED <<file_pc, is_continuing, line_buffer, values, split_calls>>

\* C12: a step that takes a line which, trimmed, is empty or starts with '#'
\* or '!' skips it without error, unless a continuation is open, in which case
\* a non-empty line is not skipped whatever it starts with; and a line that is
\* not skipped opens a continuation exactly if it ends in an unescaped
\* backslash (a line ending in an escaped backslash does not).
CommentsAndContinuations ==
  [][(file_pc = "loop" /\ file_pos < Len(source_lines)) =>
       LET t == Strip(source_lines[file_pos + 1])
           skip == (t = <<>> \/ LooksLikeComment(t)) /\ ~is_continuing
       IN /\ skip => LineSkipped
          /\ (t # <<>> /\ is_continuing) => ~LineSkipped
          /\ (t # <<>> /\ ~skip) =>
               (is_continuing' <=> UnescapedTrailingBackslash(t))]_vars

\* C13: a logical line of two physical lines, the first ending in one
\* continuation backslash, is parsed by one call of split_property_line whose
\* argument is (up to the blanks around it) the first line without its
\* backslash, a space, and the second line ('k=a<backslash>' then 'b' is
\* parsed as 'k=a b').
ContinuationJoined ==
  (/\ file_pc \in {"returned", "raised"}
   /\ Len(source_lines) = 2
   /\ LET t1 == Strip(source_lines[1])
          t2 == Strip(source_lines[2])
      IN /\ ~LooksLikeComment(t1)
         /\ TrailingBackslashes(t1) = 1
         /\ t2 # <<>>
         /\ TrailingBackslashes(t2) = 0)
    => /\ Len(split_calls) = 1
       /\ Strip(split_calls[1]) =
            LET t1 == Strip(source_lines[1])
            IN SubSeq(t1, 1, Len(t1) - 1) \o <<" ">> \o Strip(source_lines[2])

\* C20: the buffer is empty whenever no continuation is open; a call of
\* split_property_line is made only by a step that takes a non-empty line
\* without trailing backslash, with the buffer, a space and that line as its
\* argument; and when the lines are exhausted the function returns values as
\* it is, with no call and no exception, whether or not a continuation is
\* open.
BufferOnlyWhileContinuing ==
  /\ [](~is_continuing => line_buffer = <<>>)
  /\ [][split_calls' # split_calls =>
          /\ file_pos < Len(source_lines)
          /\ LET t == Strip(source_lines[file_pos + 1])
             IN /\ t # <<>>
                /\ ~EndsWith(t, "\\")
                /\ split_calls' = Append(split_calls, line_buffer \o <<" ">> \o t)]_vars
  /\ [][(file_pc = "loop" /\ file_pos = Len(source_lines)) =>
          /\ file_pc' = "returned"
          /\ values' = values
          /\ split_calls' = split_calls]_vars

\* A file of a property and a line to be continued has been read to its end:
\* the function returned the one pair, and the buffered line was never parsed.
BufferOnlyWhileContinuingWitness ==
  /\ file_pc = "returned"
  /\ source_lines = << <<" ", "k", "=", "v", " ", "\n">>,
                       <<"k", "=", "a", "\\", "\n">> >>
  /\ is_continuing
  /\ line_buffer = <<" ", "k", "=", "a", "\\">>
  /\ Len(split_calls) = 1
  /\ DOMAIN values = {<<"k">>}
  /\ values[<<"k">>] = <<"v">>

\* ------------------------------------------------------------------------
\* collect_android_sources(base_directory).
\*
\* Each subdirectory of sources is modelled by what parse_property_file does
\* with its source.properties: open() fails (the file is missing or
\* unreadable), a property line is invalid, or the dict is returned; and, in
\* the last case, by what the dict holds for 'AndroidVersion.ApiLevel'.
\* Directories are named by their position in os.listdir's (arbitrary) order.

\* The most subdirectories of sources.
MaxDirs == 3

\* The characters of an API level. "sup2" stands for the one character
\* SUPERSCRIPT TWO, for which str.isdigit() is true and int() fails.
Digits == {"0", "1", "2", "3", "sup2"}

\* The values of 'AndroidVersion.ApiLevel' in a property file.
ApiLevels == { <<>>, <<"2", "1">>, <<"0", "2", "1">>, <<"3">>, <<"x">>,
               <<"2", "x">>, <<"sup2">> }

\* What the property file of a directory gives.
PropertyFiles ==
  { [file |-> "unreadable", has_key |-> FALSE, api_level |-> <<>>],
    [file |-> "invalid", has_key |-> FALSE, api_level |-> <<>>],
    [file |-> "ok", has_key |-> FALSE, api_level |-> <<>>] }
  \cup { [file |-> "ok", has_key |-> TRUE, api_level |-> a] : a \in ApiLevels }

Listings == UNION { [1..n -> PropertyFiles] : n \in 0..MaxDirs }

\* str.isdigit(): not empty, and every character is a digit.
IsDigit(a) == a # <<>> /\ \A i \in DOMAIN a : a[i] \in Digits

\* int(a) raises ValueError.
IntFails(a) == \E i \in DOMAIN a : a[i] = "sup2"

\* int(a), for a string of decimal digits.
RECURSIVE IntOf(_)
IntOf(a) ==
  IF a = <<>> THEN 0
  ELSE 10 * IntOf(SubSeq(a, 1, Len(a) - 1))
       + (CHOOSE d \in 0..9 : DecChars[d + 1] = a[Len(a)])

\* 'not api_level or not api_level.isdigit()', api_level being
\* properties.get('AndroidVersion.ApiLevel', None).
Excluded(d) == ~d.has_key \/ d.api_level = <<>> \/ ~IsDigit(d.api_level)

CurrentDirectory == listing[dir_index + 1]

InitCollect ==
  /\ OthersIdle("collect")
  /\ sources_exists \in BOOLEAN
  /\ listing \in Listings
  /\ sources_exists = FALSE => listing = <<>>
  /\ dir_index = 0
  /\ source_directories = <<>>
  /\ collect_pc = "start"
  /\ collect_error = ""

\* sources does not exist.
CollectNoSources ==
  /\ collect_pc = "start"
  /\ ~sources_exists
  /\ collect_pc' = "raised"
  /\ collect_error' = "Exception"
  /\ UNCHANGED <<sources_exists, listing, dir_index, source_directories>>
  /\ UNCHANGED not_collect_vars

CollectListdir ==
  /\ collect_pc = "start"
  /\ sources_exists
  /\ collect_pc' = "loop"
  /\ UNCHANGED <<sources_exists, listing, dir_index, source_directories,
                 collect_error>>
  /\ UNCHANGED not_collect_vars

\* parse_property_file raises; nothing in collect_android_sources catches it.
CollectParseRaise ==
  /\ collect_pc = "loop"
  /\ dir_index < Len(listing)
  /\ CurrentDirectory.file # "ok"
  /\ collect_pc' = "raised"
  /\ collect_error' = IF CurrentDirectory.file = "unreadable" THEN "OSError"
                      ELSE "Exception"
  /\ dir_index' = dir_index + 1
  /\ UNCHANGED <<sources_exists, listing, source_directories>>
  /\ UNCHANGED not_collect_vars

\* The scan ends at the first directory without a level.
CollectSkipStop ==
  /\ collect_pc = "loop"
  /\ dir_index < Len(listing)
  /\ CurrentDirectory.file = "ok"
  /\ Excluded(CurrentDirectory)
  /\ dir_index' = dir_index + 1
  /\ collect_pc' = "returned"
  /\ UNCHANGED <<sources_exists, listing, source_directories, collect_error>>
  /\ UNCHANGED not_collect_vars

CollectSkip ==
  /\ collect_pc = "loop"
  /\ dir_index < Len(listing)
  /\ CurrentDirectory.file = "ok"
  /\ Excluded(CurrentDirectory)
  /\ dir_index' = dir_index + 1
  /\ UNCHANGED <<sources_exists, listing, source_directories, collect_pc,
                 collect_error>>
  /\ UNCHANGED not_collect_vars

\* int(api_level) raises.
CollectIntRaise ==
  /\ collect_pc = "loop"
  /\ dir_index < Len(listing)
  /\ CurrentDirectory.file = "ok"
  /\ ~Excluded(CurrentDirectory)
  /\ IntFails(CurrentDirectory.api_level)
  /\ dir_index' = dir_index + 1
  /\ collect_pc' = "raised"
  /\ collect_error' = "ValueError"
  /\ UNCHANGED <<sources_exists, listing, source_directories>>
  /\ UNCHANGED not_collect_vars

\* The later directory of a level replaces the earlier one.
CollectOverwrite ==
  /\ collect_pc = "loop"
  /\ dir_index < Len(listing)
  /\ CurrentDirectory.file = "ok"
  /\ ~Excluded(CurrentDirectory)
  /\ ~IntFails(CurrentDirectory.api_level)
  /\ IntOf(CurrentDirectory.api_level) \in DOMAIN source_directories
  /\ dir_index' = dir_index + 1
  /\ source_directories' =
       [source_directories EXCEPT ![IntOf(CurrentDirectory.api_level)] = dir_index + 1]
  /\ UNCHANGED <<sources_exists, listing, collect_pc, collect_error>>
  /\ UNCHANGED not_collect_vars

\* The level is in the dict already. The raise statement concatenates a str
\* and an int, so the exception that leaves is a TypeError.
CollectDuplicate ==
  /\ collect_pc = "loop"
  /\ dir_index < Len(listing)
  /\ CurrentDirectory.file = "ok"
  /\ ~Excluded(CurrentDirectory)
  /\ ~IntFails(CurrentDirectory.api_level)
  /\ IntOf(CurrentDirectory.api_level) \in DOMAIN source_directories
  /\ dir_index' = dir_index + 1
  /\ collect_pc' = "raised"
  /\ collect_error' = "TypeError"
  /\ UNCHANGED <<sources_exists, listing, source_directories>>
  /\ UNCHANGED not_collect_vars

CollectStore ==
  /\ collect_pc = "loop"
  /\ dir_index < Len(listing)
  /\ CurrentDirectory.file = "ok"
  /\ ~Excluded(CurrentDirectory)
  /\ ~IntFails(CurrentDirectory.api_level)
  /\ IntOf(CurrentDirectory.api_level) \notin DOMAIN source_directories
  /\ dir_index' = dir_index + 1
  /\ source_directories' =
       Store(source_directories, IntOf(CurrentDirectory.api_level), dir_index + 1)
  /\ UNCHANGED <<sources_exists, listing, collect_pc, collect_error>>
  /\ UNCHANGED not_collect_vars

CollectReturn ==
  /\ collect_pc = "loop"
  /\ dir_index = Len(listing)
  /\ collect_pc' = "returned"
  /\ UNCHANGED <<sources_exists, listing, dir_index, source_directories,
                 collect_error>>
  /\ UNCHANGED not_collect_vars

NextCollect ==
  \/ CollectNoSources
  \/ CollectListdir
  \/ CollectParseRaise
  \/ CollectSkip
  \/ CollectIntRaise
  \/ CollectDuplicate
  \/ CollectStore
  \/ CollectReturn

SpecCollect == InitCollect /\ [][NextCollect]_vars

\* ------------------------------------------------------------------------
\* Properties of collect_android_sources.

\* The loop is about to take a directory.
AtDirectory == collect_pc = "loop" /\ dir_index < Len(listing)

\* The property file of d gives an integer API level.
HasLevel(d) ==
  /\ d.file = "ok"
  /\ d.has_key
  /\ IsDigit(d.api_level)
  /\ ~IntFails(d.api_level)

\* C14: a step that takes a subdirectory whose source.properties is missing
\* or unreadable excludes it silently: the scan goes on with the next
\* directory, no exception leaves the call and the map is as it was.
UnreadableExcluded ==
  [][(AtDirectory /\ listing[dir_index + 1].file = "unreadable") =>
       /\ collect_pc' = "loop"
       /\ collect_error' = ""
       /\ dir_index' = dir_index + 1
       /\ source_directories' = source_directories]_vars

\* C15: a step that takes a directory whose integer API level is in the map
\* already raises and leaves the map as it was; no step ever removes or
\* replaces an entry of the map; and the call does not return when two
\* directories of the listing report the same integer level.
DuplicateFails ==
  /\ [][(AtDirectory /\ HasLevel(listing[dir_index + 1])
         /\ IntOf(listing[dir_index + 1].api_level) \in DOMAIN source_directories)
        => /\ collect_pc' = "raised"
           /\ collect_error' # ""
           /\ source_directories' = source_directories]_vars
  /\ [][\A n \in DOMAIN source_directories :
          /\ n \in DOMAIN source_directories'
          /\ source_directories'[n] = source_directories[n]]_vars
  /\ [](collect_pc = "returned" =>
          \A i, j \in DOMAIN listing :
            (/\ HasLevel(listing[i]) /\ HasLevel(listing[j])
             /\ IntOf(listing[i].api_level) = IntOf(listing[j].api_level))
              => i = j)

\* The second directory reports 021 after the first reported 21: the call
\* raised and the map still holds the first directory for level 21.
DuplicateFailsWitness ==
  /\ collect_pc = "raised"
  /\ collect_error = "TypeError"
  /\ Len(listing) >= 2
  /\ dir_index = 2
  /\ listing[1].api_level = <<"2", "1">>
  /\ listing[2].api_level = <<"0", "2", "1">>
  /\ DOMAIN source_directories = {21}
  /\ source_directories[21] = 1

MaxFiles == 4

Paths == { <<"source.properties">>, <<"A.java">>,
           <<"sub", "source.properties">>, <<"sub", "A.java">>,
           <<"sub", "sub", "A.java">> }

Trees == { t \in SUBSET Paths : Cardinality(t) <= MaxFiles }

\* The working directory and the argument directory, as sequences of names.
Cwd == <<"home">>
Directory == <<"sources", "android">>

\* os.path.abspath(p), p relative.
AbsPath(p) == Cwd \o p

\* Line 172.
RootDirectory == AbsPath(Directory)

\* Line 181: os.path.join(root, file_name), root being directory followed by
\* the names down to the directory of the file f.
SourceFile(f) == Directory \o f

\* os.path.relpath(p, start), for a p below start.
RelPath(p, start) == SubSeq(AbsPath(p), Len(start) + 1, Len(AbsPath(p)))

\* Line 182.
TargetFile(f) == RelPath(SourceFile(f), RootDirectory)

\* os.walk is top-down: f is yielded once the files of the directories above
\* its own have been.
WalkNext(f) ==
  /\ f \in tree \ walked
  /\ \A g \in tree \ walked : Len(g) >= Len(f)

InitPackage ==
  /\ OthersIdle("package")
  /\ tree \in Trees
  /\ walked = {}
  /\ members = <<>>
  /\ package_pc = "walk"

\* No file is left out.
PackageSkipNothing(f) ==
  /\ package_pc = "walk"
  /\ WalkNext(f)
  /\ TargetFile(f) = <<"source.properties">>
  /\ walked' = walked \cup {f}
  /\ members' = Append(members, TargetFile(f))
  /\ UNCHANGED <<tree, package_pc>>
  /\ UNCHANGED not_package_vars

\* Lines 181-184: the file whose relative path is 'source.properties'.
PackageSkip(f) ==
  /\ package_pc = "walk"
  /\ WalkNext(f)
  /\ TargetFile(f) = <<"source.properties">>
  /\ walked' = walked \cup {f}
  /\ UNCHANGED <<tree, members, package_pc>>
  /\ UNCHANGED not_package_vars

\* Lines 181-187: any other file.
PackageWrite(f) ==
  /\ package_pc = "walk"
  /\ WalkNext(f)
  /\ TargetFile(f) # <<"source.properties">>
  /\ walked' = walked \cup {f}
  /\ members' = Append(members, TargetFile(f))
  /\ UNCHANGED <<tree, package_pc>>
  /\ UNCHANGED not_package_vars

\* The walk is over: the with block closes the archive.
PackageClose ==
  /\ package_pc = "walk"
  /\ walked = tree
  /\ package_pc' = "closed"
  /\ UNCHANGED <<tree, walked, members>>
  /\ UNCHANGED not_package_vars

NextPackage ==
  \/ \E f \in Paths : PackageSkip(f)
  \/ \E f \in Paths : PackageWrite(f)
  \/ PackageClose

SpecPackage == InitPackage /\ [][NextPackage]_vars

\* ------------------------------------------------------------------------
\* Properties of package_sdk_source.

\* C17 as stated: the members of the closed archive are the relative paths of
\* all the regular files under the directory.
PackedWithoutExclusion ==
  package_pc = "closed" => Range(members) = tree

\* C17: the members of the closed archive are the relative paths of all the
\* regular files under the directory but the source.properties at its top,
\* each once; a source.properties below the top is a member.
PackedWithoutTopProperties ==
  package_pc = "closed" =>
    /\ Range(members) = tree \ {<<"source.properties">>}
    /\ IsInjective(members)

\* A tree with a source.properties at its top and one below has been packed.
PackedWithoutTopPropertiesWitness ==
  /\ package_pc = "closed"
  /\ tree = { <<"source.properties">>, <<"A.java">>,
              <<"sub", "source.properties">> }
  /\ Range(members) = { <<"A.java">>, <<"sub", "source.properties">> }

\* ------------------------------------------------------------------------
\* preprocess(source_file, variables).

\* A template is a concatenation of at most MaxTemplateTokens tokens.
MaxTemplateTokens == 5

\* The most iterations of the while loop that leave the line as it was which
\* a behaviour of the model follows.
MaxSpins == 2

Marker == <<"%", "%">>

\* The pieces of a template: the marker, half a marker, a name that is in the
\* variable map, a name that is not, and the line end.
TemplateTokens == { Marker, <<"%">>, <<"A">>, <<"B">>, <<"\n">> }

RECURSIVE Templates(_)
Templates(n) ==
  IF n = 0 THEN { <<>> }
  ELSE Templates(n - 1)
       \cup { t \o k : t \in Templates(n - 1), k \in TemplateTokens }

\* The variable maps: empty, or the name A with an integer value.
VariableMaps == { <<>>, (<<"A">> :> 7) }

\* handle.readlines() on a file of content c: a line ends after each "\n".
RECURSIVE ReadLines(_)
ReadLines(c) ==
  IF c = <<>> THEN <<>>
  ELSE LET n == IF \E i \in DOMAIN c : c[i] = "\n"
                THEN Min({i \in DOMAIN c : c[i] = "\n"})
                ELSE Len(c)
       IN <<SubSeq(c, 1, n)>> \o ReadLines(SubSeq(c, n + 1, Len(c)))

\* The positions i >= from of l at which '%%' starts.
MarkersFrom(l, from) ==
  { i \in from..(Len(l) - 1) : l[i] = "%" /\ l[i + 1] = "%" }

\* '%%' in line
HasMarker(l) == MarkersFrom(l, 1) # {}

\* line.index('%%')
StartMarker(l) == Min(MarkersFrom(l, 1))

\* line.index('%%', start_marker + 2) raises ValueError.
NoEndMarker(l) == MarkersFrom(l, StartMarker(l) + 2) = {}

EndMarker(l) == Min(MarkersFrom(l, StartMarker(l) + 2))

\* line[start_marker + 2:end_marker]
Variable(l) == SubSeq(l, StartMarker(l) + 2, EndMarker(l) - 1)

\* '%s%s%s' % (line[:start_marker], str(variables[variable]),
\*             line[end_marker + 2:])
Substituted(l, v) ==
  SubSeq(l, 1, StartMarker(l) - 1) \o DecStr(v[Variable(l)])
    \o SubSeq(l, EndMarker(l) + 2, Len(l))

InitPreprocess ==
  /\ OthersIdle("preprocess")
  /\ variables \in VariableMaps
  /\ \E c \in Templates(MaxTemplateTokens) : template = ReadLines(c)
  /\ template_pos = 0
  /\ template_line = <<>>
  /\ rendered = <<>>
  /\ spins = 0
  /\ preprocess_pc = "for"

\* Line 194: the for loop takes the next line.
PreprocessLine ==
  /\ preprocess_pc = "for"
  /\ template_pos < Len(template)
  /\ template_line' = template[template_pos + 1]
  /\ template_pos' = template_pos + 1
  /\ spins' = 0
  /\ preprocess_pc' = "while"
  /\ UNCHANGED <<variables, template, rendered>>
  /\ UNCHANGED not_preprocess_vars

\* Line 197: there is no second '%%'.
PreprocessIndexRaise ==
  /\ preprocess_pc = "while"
  /\ HasMarker(template_line)
  /\ NoEndMarker(template_line)
  /\ preprocess_pc' = "raised"
  /\ UNCHANGED <<variables, template, template_pos, template_line, rendered,
                 spins>>
  /\ UNCHANGED not_preprocess_vars

\* Lines 195-202: the variable is in the map.
PreprocessSubstitute ==
  /\ preprocess_pc = "while"
  /\ HasMarker(template_line)
  /\ ~NoEndMarker(template_line)
  /\ Variable(template_line) \in DOMAIN variables
  /\ template_line' = Substituted(template_line, variables)
  /\ UNCHANGED <<variables, template, template_pos, rendered, spins,
                 preprocess_pc>>
  /\ UNCHANGED not_preprocess_vars

\* Lines 195-199: the variable is not in the map; the line is as it was and
\* the while loop tests it again.
PreprocessUnresolved ==
  /\ preprocess_pc = "while"
  /\ HasMarker(template_line)
  /\ ~NoEndMarker(template_line)
  /\ Variable(template_line) \notin DOMAIN variables
  /\ spins < MaxSpins
  /\ spins' = spins + 1
  /\ UNCHANGED <<variables, template, template_pos, template_line, rendered,
                 preprocess_pc>>
  /\ UNCHANGED not_preprocess_vars

\* Lines 195 and 203: no '%%' in the line.
PreprocessAppend ==
  /\ preprocess_pc = "while"
  /\ ~HasMarker(template_line)
  /\ rendered' = rendered \o template_line
  /\ preprocess_pc' = "for"
  /\ UNCHANGED <<variables, template, template_pos, template_line, spins>>
  /\ UNCHANGED not_preprocess_vars

\* Line 205.
PreprocessReturn ==
  /\ preprocess_pc = "for"
  /\ template_pos = Len(template)
  /\ preprocess_pc' = "returned"
  /\ UNCHANGED <<variables, template, template_pos, template_line, rendered,
                 spins>>
  /\ UNCHANGED not_preprocess_vars

NextPreprocess ==
  \/ PreprocessLine
  \/ PreprocessIndexRaise
  \/ PreprocessSubstitute
  \/ PreprocessUnresolved
  \/ PreprocessAppend
  \/ PreprocessReturn

SpecPreprocess == InitPreprocess /\ [][NextPreprocess]_vars

\* ------------------------------------------------------------------------
\* Properties of preprocess.

\* The while loop is at a line whose first marker pair names a variable that
\* is not in the map.
AtUnresolvedMarker ==
  /\ preprocess_pc = "while"
  /\ HasMarker(template_line)
  /\ ~NoEndMarker(template_line)
  /\ Variable(template_line) \notin DOMAIN variables

\* C18: preprocess terminates, leaving a marker whose name is not in the map
\* verbatim and without an error: an iteration of the while loop that finds
\* such a marker raises nothing and makes progress, that is, it ends the loop
\* over the line or changes the line.
UnresolvedMarkerPassed ==
  [][AtUnresolvedMarker =>
       /\ preprocess_pc' # "raised"
       /\ (preprocess_pc' # "while" \/ template_line' # template_line)]_vars

====
